---- MODULE Spec2Model ----
(***************************************************************************)
(* A model of advanced-vector/vector.h: RawMemory<T> (a raw block of       *)
(* capacity_ slots at buffer_) and Vector<T> (a RawMemory plus size_).     *)
(* Indices are the C++ ones (0-based); slot i of a block is mem[i + 1].    *)
(***************************************************************************)
EXTENDS Integers, Sequences, FiniteSets

\* ---------------------------------------------------------------- bounds
MaxHeap == 4         \* slots the allocated blocks hold in total when an operation returns
PairHeap == 3        \* the same while two vectors are constructed
MaxRegions == 3      \* distinct heap addresses operator new can hand out

\* ------------------------------------------------------------- constants
Null == 0            \* nullptr
Raw == -1            \* a slot of raw memory holding no constructed T
DefaultValue == 0    \* T() as made by value-initialization
MovedFrom == DefaultValue   \* a T that was moved from is left as T() is (std::string, unique_ptr)

Vecs == {"a", "b"}
Regions == 1..MaxRegions
Values == {DefaultValue, 1}

\* The element type T, as the traits in the if constexpr see it:
\*   "nothrow"  is_nothrow_move_constructible, copyable
\*   "copy"     move constructor may throw, copyable
\*   "moveonly" move constructor may throw, not copy constructible
Types == {"nothrow", "copy", "moveonly"}

VARIABLES
    heap,     \* heap[r]: the slots of the region at address r, <<>> when not allocated
    data_,    \* data_[v]: the RawMemory of vector v, [buffer_, capacity_]
    size_,    \* size_[v]
    alive,    \* alive[v]: v is a constructed object
    ttype,    \* the element type T of the vectors
    ub,       \* "none", or the fault the run ended in: the undefined behaviour the
              \* last operation ran into, or "leak" when it lost a block
    watch,    \* what the observers below follow in this run
    last,     \* the last call, when it is one of the watched member functions
    log,      \* log[v]: the values appended to v since it was made empty
    rsv,      \* the Reserve(k) that only EmplaceBack calls on its vector have followed
    orig      \* the vector a copy was made of, as it was when the copy was made

vars == <<heap, data_, size_, alive, ttype, ub, watch, last, log, rsv, orig>>

\* ------------------------------------------------------------ type traits
Copyable == ttype # "moveonly"
UseMove == ttype # "copy"
MoveCanThrow == ttype # "nothrow"

\* ------------------------------------------------------------- raw slots
Min(x, y) == IF x < y THEN x ELSE y

RawBlock(n) == [j \in 1..n |-> Raw]

InRange(j, first, cnt) == first < j /\ j <= first + cnt

\* std::destroy_n(p + first, cnt): the slots become raw again
DestroyN(m, first, cnt) ==
    [j \in DOMAIN m |-> IF InRange(j, first, cnt) THEN Raw ELSE m[j]]

\* a destructor is run on a slot that is out of the block or holds no T
DestroysRaw(m, first, cnt) ==
    \E j \in (first + 1)..(first + cnt) : j \notin DOMAIN m \/ m[j] = Raw

\* a copy loop that stops one element early
UninitCopyNShort(src, sfirst, cnt, dst, dfirst) ==
    [j \in DOMAIN dst |->
        IF InRange(j, dfirst, cnt - 1) THEN src[sfirst + (j - dfirst)] ELSE dst[j]]

\* std::uninitialized_copy_n(src + sfirst, cnt, dst + dfirst), all cnt copied
UninitCopyN(src, sfirst, cnt, dst, dfirst) ==
    [j \in DOMAIN dst |->
        IF InRange(j, dfirst, cnt) THEN src[sfirst + (j - dfirst)] ELSE dst[j]]

\* the source of std::uninitialized_move_n after its first cnt elements were moved
MovedOut(src, sfirst, cnt) ==
    [j \in DOMAIN src |-> IF InRange(j, sfirst, cnt) THEN MovedFrom ELSE src[j]]

\* a value construction that starts one slot late
ValueConstructNLate(m, first, cnt) ==
    [j \in DOMAIN m |-> IF InRange(j, first + 1, cnt) THEN DefaultValue ELSE m[j]]

\* std::uninitialized_value_construct_n(p + first, cnt)
ValueConstructN(m, first, cnt) ==
    [j \in DOMAIN m |-> IF InRange(j, first, cnt) THEN DefaultValue ELSE m[j]]

\* --------------------------------------------------------------- RawMemory
NullMemory == [buffer_ |-> Null, capacity_ |-> 0]

FreeRegions(h) == {r \in Regions : h[r] = <<>>}

\* operator new has an address left for a block of n slots
CanAllocate(h, n) == n = 0 \/ FreeRegions(h) # {}

RECURSIVE SlotsUpTo(_, _)
SlotsUpTo(h, r) == IF r = 0 THEN 0 ELSE Len(h[r]) + SlotsUpTo(h, r - 1)

\* the heap holds the blocks of h while the vectors of al are constructed
HeapFits(h, al) ==
    SlotsUpTo(h, MaxRegions)
        <= (IF \A v \in DOMAIN al : al[v] THEN PairHeap ELSE MaxHeap)

\* RawMemory::Allocate: the address of the new block, nullptr for n = 0
Allocate(h, n) ==
    IF n = 0 THEN Null
    ELSE CHOOSE r \in FreeRegions(h) : \A q \in FreeRegions(h) : r <= q

\* the heap once Allocate(h, n) has returned
Allocated(h, n) ==
    IF n = 0 THEN h ELSE [h EXCEPT ![Allocate(h, n)] = RawBlock(n)]

\* RawMemory(size_t capacity)
NewMemory(h, n) == [buffer_ |-> Allocate(h, n), capacity_ |-> n]

\* RawMemory::Deallocate, as ~RawMemory calls it
Deallocate(h, buf) == IF buf = Null THEN h ELSE [h EXCEPT ![buf] = <<>>]

\* operator== of two RawMemory
RawMemoryEqual(l, r) ==
    l.capacity_ = r.capacity_ /\ l.buffer_ = r.buffer_

\* operator!= of two RawMemory
RawMemoryNotEqual(l, r) ==
    l.capacity_ # r.capacity_ /\ l.buffer_ # r.buffer_

\* the slots behind a RawMemory
Mem(h, d) == IF d.buffer_ = Null THEN <<>> ELSE h[d.buffer_]

\* ------------------------------------------------------------------ Vector
Capacity(v) == data_[v].capacity_
Size(v) == size_[v]

\* the object is one every member function may be called on: it is constructed and
\* the T objects of its block are those of the slots below size_
Usable(v) ==
    /\ alive[v]
    /\ size_[v] <= data_[v].capacity_
    /\ Len(Mem(heap, data_[v])) = data_[v].capacity_
    /\ \A j \in 1..data_[v].capacity_ :
          (Mem(heap, data_[v])[j] # Raw) <=> (j <= size_[v])

NoCall ==
    [op |-> "none", v |-> "a", w |-> "a", i |-> 0, x |-> 0, ref |-> 0,
     out |-> "ok", ret |-> 0]

\* the record of a call: its arguments and result are kept when it returned
Called(op, v, w, i, x, ref, out, ret) ==
    IF out = "ok"
    THEN [op |-> op, v |-> v, w |-> w, i |-> i, x |-> x, ref |-> ref,
          out |-> out, ret |-> ret]
    ELSE [op |-> op, v |-> v, w |-> w, i |-> 0, x |-> 0, ref |-> 0,
          out |-> out, ret |-> 0]

\* what a member function leaves of the heap and of its vector
Outcome(h, d, n, out, u, ret) ==
    [h |-> h, d |-> d, n |-> n, out |-> out, ub |-> u, ret |-> ret]

\* the elements of a vector, in order
Elements(h, d, n) == [j \in 1..n |-> Mem(h, d)[j]]

\* -------------------------------------------------------------- observers
Mutators == {"EmplaceBack", "Emplace", "Erase", "PopBack", "Resize", "Reserve", "[]="}

LogOff == [on |-> FALSE, vals |-> <<>>]
RsvOff == [on |-> FALSE, v |-> "a", left |-> 0, mem |-> NullMemory, empty |-> FALSE]
OrigOff == [on |-> FALSE, c |-> "a", o |-> "a", snap |-> <<>>]

\* log after call c: the values of the successful EmplaceBack calls on a vector
\* since Vector() made it, as long as nothing else was called on it
LogNext(c) ==
    [u \in Vecs |->
        IF u \notin {c.v, c.w} THEN log[u]
        ELSE IF c.op = "Vector" THEN [on |-> TRUE, vals |-> <<>>]
        ELSE IF c.op = "EmplaceBack" /\ c.out = "ok" /\ log[u].on
        THEN [on |-> TRUE, vals |-> Append(log[u].vals, c.x)]
        ELSE LogOff]

\* rsv after call c: Reserve(k) starts it with k EmplaceBack calls left to follow,
\* each EmplaceBack call on the same vector takes one, any other call ends it
RsvNext(c) ==
    IF c.op = "Reserve" /\ c.out = "ok"
    THEN [on |-> TRUE, v |-> c.v, left |-> c.i, mem |-> data_'[c.v],
          empty |-> size_[c.v] = 0]
    ELSE IF c.op = "EmplaceBack" /\ rsv.on /\ rsv.v = c.v /\ rsv.left > 0
    THEN [rsv EXCEPT !.left = @ - 1]
    ELSE RsvOff

\* orig after call c: a copy construction or copy assignment c.v <- c.w starts
\* it, mutating calls on the copy keep it as long as their behaviour is defined,
\* anything else ends it
OrigNext(c) ==
    IF c.op \in {"Vector(copy)", "copy="} /\ c.out = "ok" /\ c.v # c.w
    THEN [on |-> TRUE, c |-> c.v, o |-> c.w,
          snap |-> Elements(heap', data_'[c.w], size_'[c.w])]
    ELSE IF orig.on /\ c.v = orig.c /\ c.w = orig.c /\ c.op \in Mutators
                    /\ ub' = "none"
    THEN orig
    ELSE OrigOff

\* the record of a call without its arguments and result
Brief(c) == [c EXCEPT !.i = 0, !.x = 0, !.ref = 0, !.ret = 0]

\* the observers take note of call c
Record(c) ==
    /\ last' = IF c.op \notin watch THEN NoCall
               ELSE IF "args" \in watch THEN c ELSE Brief(c)
    /\ log' = IF "log" \in watch THEN LogNext(c) ELSE log
    /\ rsv' = IF "reserve" \in watch THEN RsvNext(c) ELSE rsv
    /\ orig' = IF "copy" \in watch THEN OrigNext(c) ELSE orig
    /\ UNCHANGED watch

\* the program has constructed two empty vectors; W is what the observers follow
Start(W) ==
    /\ heap = [r \in Regions |-> <<>>]
    /\ data_ = [v \in Vecs |-> NullMemory]
    /\ size_ = [v \in Vecs |-> 0]
    /\ alive = [v \in Vecs |-> TRUE]
    /\ ttype \in Types
    /\ ub = "none"
    /\ watch = W
    /\ last = NoCall
    /\ log = [v \in Vecs |-> IF "log" \in W THEN [on |-> TRUE, vals |-> <<>>] ELSE LogOff]
    /\ rsv = RsvOff
    /\ orig = OrigOff

Init == Start({})

\* a member function of v has returned or thrown
Finish(v, r, call) ==
    /\ HeapFits(r.h, alive)
    /\ heap' = r.h
    /\ data_' = [data_ EXCEPT ![v] = r.d]
    /\ size_' = [size_ EXCEPT ![v] = r.n]
    /\ ub' = r.ub
    /\ UNCHANGED <<alive, ttype>>
    /\ Record(call)

\* a constructor of v has returned (built) or thrown
Constructed(v, r, call) ==
    /\ HeapFits(r.h, [alive EXCEPT ![v] = (r.out = "ok")])
    /\ heap' = r.h
    /\ data_' = [data_ EXCEPT ![v] = r.d]
    /\ size_' = [size_ EXCEPT ![v] = r.n]
    /\ alive' = [alive EXCEPT ![v] = (r.out = "ok")]
    /\ ub' = r.ub
    /\ UNCHANGED ttype
    /\ Record(call)

\* ---------------------------------------------- constructors and destructor
\* Vector()
DefaultConstruct(v) ==
    /\ ub = "none" /\ ~alive[v]
    /\ Constructed(v, Outcome(heap, NullMemory, 0, "ok", "none", 0),
                   Called("Vector", v, v, 0, 0, 0, "ok", 0))

\* Vector(size_t size); f = 1: operator new throws, f = 1 + k: the k-th T() throws
SizedVector(h, n, f) ==
    LET d == NewMemory(h, n)
        h1 == Allocated(h, n)
    IN  IF f = 0
        THEN Outcome([h1 EXCEPT ![d.buffer_] = ValueConstructN(h1[d.buffer_], 0, n)],
                     d, n, "ok", "none", 0)
        ELSE Outcome(h, NullMemory, 0, "throw", "none", 0)

SizedConstruct(v, n, f) ==
    /\ ub = "none" /\ ~alive[v]
    /\ n = 0 => f = 0
    /\ CanAllocate(heap, n)
    /\ LET r == IF n = 0 THEN Outcome(heap, NullMemory, 0, "ok", "none", 0)
                ELSE SizedVector(heap, n, f)
       IN Constructed(v, r, Called("Vector(n)", v, v, n, 0, 0, r.out, 0))

\* a copy constructor that takes over the block of other instead of copying it
CopyVectorShared(h, rd, n, f) ==
    IF f # 0 THEN Outcome(h, NullMemory, 0, "throw", "none", 0)
    ELSE Outcome(h, rd, n, "ok", "none", 0)

\* Vector(const Vector& other), other holding n elements in its block rd;
\* f = 1: operator new throws, f = 1 + k: the k-th copy throws
CopyVector(h, rd, n, f) ==
    LET d == NewMemory(h, n)
        h1 == Allocated(h, n)
    IN  IF f # 0 THEN Outcome(h, NullMemory, 0, "throw", "none", 0)
        ELSE IF n = 0 THEN Outcome(h, d, 0, "ok", "none", 0)
        ELSE Outcome([h1 EXCEPT ![d.buffer_] =
                         UninitCopyN(Mem(h, rd), 0, n, h1[d.buffer_], 0)],
                     d, n, "ok", "none", 0)

CopyConstruct(v, w, f) ==
    /\ ub = "none" /\ ~alive[v] /\ w # v /\ Usable(w) /\ Copyable
    /\ size_[w] = 0 => f = 0
    /\ CanAllocate(heap, size_[w])
    /\ LET r == CopyVector(heap, data_[w], size_[w], f)
       IN Constructed(v, r, Called("Vector(copy)", v, w, 0, 0, 0, r.out, 0))

\* a move constructor that copies the fields of other and leaves them in it
MoveConstructMemoryKeeps(other) == [this |-> other, other |-> other]

\* RawMemory(RawMemory&& other): what the new block and other become
MoveConstructMemory(other) ==
    IF RawMemoryNotEqual(NullMemory, other)
    THEN [this |-> other, other |-> NullMemory]
    ELSE [this |-> NullMemory, other |-> other]

\* Vector(Vector&& other)
MoveConstruct(v, w) ==
    /\ ub = "none" /\ ~alive[v] /\ w # v /\ Usable(w)
    /\ HeapFits(heap, [alive EXCEPT ![v] = TRUE])
    /\ LET m == MoveConstructMemory(data_[w])
       IN /\ data_' = [data_ EXCEPT ![v] = m.this, ![w] = m.other]
          /\ size_' = [size_ EXCEPT ![v] = size_[w], ![w] = 0]
    /\ alive' = [alive EXCEPT ![v] = TRUE]
    /\ UNCHANGED <<heap, ttype, ub>>
    /\ Record(Called("Vector(move)", v, w, 0, 0, 0, "ok", 0))

\* ~Vector, then ~RawMemory of its data_
Destroy(v) ==
    /\ ub = "none" /\ alive[v]
    /\ LET d == data_[v]
           bad == d.buffer_ # Null /\ DestroysRaw(heap[d.buffer_], 0, size_[v])
       IN /\ heap' = Deallocate(heap, d.buffer_)
          /\ ub' = IF bad THEN "destroy_raw" ELSE "none"
    /\ data_' = [data_ EXCEPT ![v] = NullMemory]
    /\ size_' = [size_ EXCEPT ![v] = 0]
    /\ alive' = [alive EXCEPT ![v] = FALSE]
    /\ UNCHANGED ttype
    /\ Record(Called("~Vector", v, v, 0, 0, 0, "ok", 0))

\* ------------------------------------------------------------- assignment
\* an in-place assignment that stops after the overlapping prefix
AssignInPlaceNoTail(m, n, src, rn, f) ==
    [j \in DOMAIN m |->
        IF j <= (IF f = 0 THEN Min(n, rn) ELSE Min(f - 1, Min(n, rn))) THEN src[j]
        ELSE m[j]]

\* the in-place branch of operator=(const Vector&): this block m holds n elements,
\* rhs holds rn in src; f = k: the k-th element copy (assignments first, then
\* constructions) throws
AssignInPlace(m, n, src, rn, f) ==
    LET both == Min(n, rn)
        done == IF f = 0 THEN both ELSE Min(f - 1, both)
        assigned == [j \in DOMAIN m |-> IF j <= done THEN src[j] ELSE m[j]]
    IN  IF f # 0 THEN assigned
        ELSE IF n > rn THEN DestroyN(assigned, rn, n - rn)
        ELSE UninitCopyN(src, n, rn - n, assigned, n)

\* a copy assignment that empties the vector before it builds the copy
CopyAssignedClearsFirst(h, d, n, rd, rn, f) ==
    IF f = 0
    THEN Outcome([h EXCEPT ![d.buffer_] = UninitCopyN(Mem(h, rd), 0, rn, @, 0)],
                 d, rn, "ok", "none", 0)
    ELSE Outcome([h EXCEPT ![d.buffer_] = DestroyN(@, 0, n)], d, 0, "throw", "none", 0)

\* Vector::operator=(const Vector& rhs) on the vector with block d and size n
CopyAssigned(h, d, n, rd, rn, f) ==
    IF rn > d.capacity_
    THEN LET t == CopyVector(h, rd, rn, f)
         IN IF t.out = "throw" THEN Outcome(h, d, n, "throw", "none", 0)
            ELSE Outcome(Deallocate(t.h, d.buffer_), t.d, rn, "ok", "none", 0)
    ELSE IF rn = 0 /\ n = 0 THEN Outcome(h, d, 0, "ok", "none", 0)
    ELSE Outcome([h EXCEPT ![d.buffer_] = AssignInPlace(h[d.buffer_], n, Mem(h, rd), rn, f)],
                 d, IF f = 0 THEN rn ELSE n, IF f = 0 THEN "ok" ELSE "throw", "none", 0)

CopyAssignFaults(v, w) ==
    IF v = w THEN {0}
    ELSE IF size_[w] > Capacity(v) THEN 0..(1 + size_[w])
    ELSE 0..size_[w]

CopyAssign(v, w, f) ==
    /\ ub = "none" /\ Usable(v) /\ Usable(w) /\ Copyable
    /\ f \in CopyAssignFaults(v, w)
    /\ size_[w] > Capacity(v) => CanAllocate(heap, size_[w])
    /\ LET r == IF v = w THEN Outcome(heap, data_[v], size_[v], "ok", "none", 0)
                ELSE CopyAssigned(heap, data_[v], size_[v], data_[w], size_[w], f)
       IN Finish(v, r, Called("copy=", v, w, 0, 0, 0, r.out, 0))

\* RawMemory::operator=(RawMemory&& rhs): what *this and rhs become
MoveAssignMemory(this, rhs) ==
    IF RawMemoryNotEqual(this, rhs)
    THEN [this |-> rhs, rhs |-> NullMemory]
    ELSE [this |-> this, rhs |-> rhs]

\* a block of the heap h that no RawMemory of d holds any more
Leaked(h, d) ==
    \E r \in Regions : h[r] # <<>> /\ \A v \in Vecs : d[v].buffer_ # r

\* Vector::operator=(Vector&& rhs)
MoveAssign(v, w) ==
    /\ ub = "none" /\ Usable(v) /\ Usable(w)
    /\ IF v # w
       THEN LET m == MoveAssignMemory(data_[v], data_[w])
            IN /\ data_' = [data_ EXCEPT ![v] = m.this, ![w] = m.rhs]
               /\ size_' = [size_ EXCEPT ![v] = size_[w]]
       ELSE UNCHANGED <<data_, size_>>
    /\ ub' = IF Leaked(heap, data_') THEN "leak" ELSE "none"
    /\ UNCHANGED <<heap, alive, ttype>>
    /\ Record(Called("move=", v, w, 0, 0, 0, "ok", 0))

\* operator== of two Vector
VectorEqual(v, w) ==
    RawMemoryEqual(data_[v], data_[w]) /\ size_[v] = size_[w]

\* operator!= of two Vector
VectorNotEqual(v, w) ==
    RawMemoryNotEqual(data_[v], data_[w]) /\ size_[v] # size_[w]

\* Vector::Swap
Swap(v, w) ==
    /\ ub = "none" /\ Usable(v) /\ Usable(w)
    /\ data_' = [data_ EXCEPT ![v] = data_[w], ![w] = data_[v]]
    /\ size_' = [size_ EXCEPT ![v] = size_[w], ![w] = size_[v]]
    /\ UNCHANGED <<heap, alive, ttype, ub>>
    /\ Record(Called("Swap", v, w, 0, 0, 0, "ok", 0))

\* ------------------------------------------------------------------ append
\* the value a constructor argument denotes: the value x, or when ref > 0 the
\* element the reference is bound to, read from the block m when T(args) runs
ArgValue(m, x, ref) == IF ref = 0 THEN x ELSE m[ref]

\* UnusedEmplaceBack; f = 1: the constructor of the new element throws
UnusedEmplaceBack(h, d, n, x, ref, f) ==
    IF f = 1 THEN Outcome(h, d, n, "throw", "none", 0)
    ELSE Outcome([h EXCEPT ![d.buffer_][n + 1] = ArgValue(h[d.buffer_], x, ref)],
                 d, n + 1, "ok", "none", n)

\* growth by one slot instead of doubling
GrownByOne(n) == n + 1

\* the capacity a single-element insertion allocates
GrownCapacity(n) == IF n = 0 THEN 1 ELSE n * 2

\* the heap and the old block when the relocation into temp threw at its k-th
\* element: the algorithm has destroyed what it had constructed
RelocationThrew(h, d, k) ==
    IF UseMove /\ d.buffer_ # Null
    THEN [h EXCEPT ![d.buffer_] = MovedOut(h[d.buffer_], 0, k - 1)]
    ELSE h

\* RelocatedEmplaceBack; f = 1: operator new throws, f = 2: the constructor of the
\* new element throws, f = 2 + k: relocating the k-th element throws an exception
\* that is a std::exception (xk = "std") or is not (xk = "other")
RelocatedEmplaceBack(h, d, n, x, ref, f, xk) ==
    LET temp == NewMemory(h, GrownCapacity(n))
        h1 == Allocated(h, GrownCapacity(n))
        old == Mem(h, d)
        h2 == [h1 EXCEPT ![temp.buffer_][n + 1] = ArgValue(old, x, ref)]
    IN  IF f = 1 THEN Outcome(h, d, n, "throw", "none", 0)
        ELSE IF f = 2 THEN Outcome(Deallocate(h1, temp.buffer_), d, n, "throw", "none", 0)
        ELSE IF f > 2 THEN
            LET h3 == RelocationThrew(h2, d, f - 2)
                bad == xk = "std" /\ DestroysRaw(h3[temp.buffer_], 0, n + 1)
            IN  Outcome(Deallocate(h3, temp.buffer_), d, n, "throw",
                        IF bad THEN "destroy_raw" ELSE "none", 0)
        ELSE
            LET h3 == [h2 EXCEPT ![temp.buffer_] =
                          UninitCopyN(old, 0, n, h2[temp.buffer_], 0)]
            IN  Outcome(Deallocate(h3, d.buffer_), temp, n + 1, "ok", "none", n)

\* the steps of EmplaceBack that can throw for this T and this vector
EmplaceBackFaults(v) ==
    IF size_[v] = Capacity(v)
    THEN 0..(IF MoveCanThrow THEN 2 + size_[v] ELSE 2)
    ELSE 0..1

\* the arguments a T can be constructed from: a value, or (ref > 0) a const
\* reference to element ref - 1 of the vector itself; what a call that throws
\* leaves behind does not depend on them, so one argument stands for all
Args(v, f) ==
    IF f # 0 THEN {<<DefaultValue, 0>>}
    ELSE {<<x, 0>> : x \in Values} \cup
         {<<DefaultValue, j>> : j \in (IF Copyable THEN 1..size_[v] ELSE {})}

\* the kinds of exception step f of a relocating insertion can throw
Kinds(f) == IF f > 2 THEN {"std", "other"} ELSE {"std"}

\* the body of Vector::EmplaceBack on the vector with block d and size n
EmplaceBackInto(h, d, n, x, ref, f, xk) ==
    IF n = d.capacity_
    THEN RelocatedEmplaceBack(h, d, n, x, ref, f, xk)
    ELSE UnusedEmplaceBack(h, d, n, x, ref, f)

\* Vector::EmplaceBack, and PushBack through it
EmplaceBack(v, x, ref, f, xk) ==
    /\ ub = "none" /\ Usable(v)
    /\ LET val == ArgValue(Mem(heap, data_[v]), x, ref)
           r == EmplaceBackInto(heap, data_[v], size_[v], x, ref, f, xk)
       IN /\ size_[v] = Capacity(v) => CanAllocate(heap, GrownCapacity(size_[v]))
          /\ Finish(v, r, Called("EmplaceBack", v, v, size_[v], val, ref, r.out, r.ret))

\* ------------------------------------------------------- positional insert
\* *d = std::move(*s) on slots of one block
MoveAssignSlot(m, s, d) == IF s = d THEN m ELSE [m EXCEPT ![d] = m[s], ![s] = MovedFrom]

\* the shift done back to front, as std::move_backward would
RECURSIVE MoveForwardReversed(_, _, _, _)
MoveForwardReversed(m, s, d, cnt) ==
    IF cnt = 0 THEN m
    ELSE MoveForwardReversed(MoveAssignSlot(m, s + cnt - 1, d + cnt - 1), s, d, cnt - 1)

\* std::move(first, ...): cnt move assignments, front to back, from slot s to slot d
RECURSIVE MoveForward(_, _, _, _)
MoveForward(m, s, d, cnt) ==
    IF cnt = 0 THEN m
    ELSE MoveForward(MoveAssignSlot(m, s, d), s + 1, d + 1, cnt - 1)

\* std::move_backward(..., last, d_last): cnt move assignments, back to front,
\* the first from slot s to slot d
RECURSIVE MoveBackward(_, _, _, _)
MoveBackward(m, s, d, cnt) ==
    IF cnt = 0 THEN m
    ELSE MoveBackward(MoveAssignSlot(m, s, d), s - 1, d - 1, cnt - 1)

\* an insertion that reads its argument only when it assigns it, after the shift
InsertInPlaceLateRead(m, n, i, x, ref, f) ==
    LET shifts == n - 1 - i
        m2 == [m EXCEPT ![n + 1] = m[n], ![n] = MovedFrom]
        m3 == MoveBackward(m2, n - 1, n, IF f = 0 \/ f > 2 + shifts THEN shifts ELSE f - 3)
        m4 == [m3 EXCEPT ![i + 1] = ArgValue(m3, x, ref)]
    IN  IF f = 0 THEN m4
        ELSE IF f <= 2 THEN m
        ELSE m3

\* the try block of UnusedEmplace on the block m of n elements, inserting at i,
\* run up to (not including) step f: 1 the temporary, 2 the move construction of
\* the last element into slot n, 2 + k the k-th move of the shift, 3 + (n - 1 - i)
\* the assignment of the temporary; f = 0 runs it all
InsertInPlace(m, n, i, x, ref, f) ==
    LET temp_obj == ArgValue(m, x, ref)
        shifts == n - 1 - i
        m2 == [m EXCEPT ![n + 1] = m[n], ![n] = MovedFrom]
        m3 == MoveBackward(m2, n - 1, n, IF f = 0 \/ f > 2 + shifts THEN shifts ELSE f - 3)
        m4 == [m3 EXCEPT ![i + 1] = temp_obj]
    IN  IF f = 0 THEN m4
        ELSE IF f <= 2 THEN m
        ELSE m3

\* an UnusedEmplace whose branch for pos == end() does not forward its arguments
UnusedEmplaceNoArgs(h, d, n, i, x, ref, f, xk) ==
    IF i = n THEN
        LET r == UnusedEmplaceBack(h, d, n, DefaultValue, 0, f)
        IN Outcome(r.h, r.d, r.n, r.out, r.ub, n)
    ELSE
        Outcome([h EXCEPT ![d.buffer_] = InsertInPlace(h[d.buffer_], n, i, x, ref, f)],
                d, IF f = 0 THEN n + 1 ELSE n, IF f = 0 THEN "ok" ELSE "throw",
                IF f # 0 /\ xk = "std" THEN "delete_inside_block" ELSE "none", i)

\* UnusedEmplace; an exception caught by the handler reaches operator delete(end())
UnusedEmplace(h, d, n, i, x, ref, f, xk) ==
    IF i = n THEN
        LET r == UnusedEmplaceBack(h, d, n, x, ref, f)
        IN Outcome(r.h, r.d, r.n, r.out, r.ub, n)
    ELSE
        Outcome([h EXCEPT ![d.buffer_] = InsertInPlace(h[d.buffer_], n, i, x, ref, f)],
                d, IF f = 0 THEN n + 1 ELSE n, IF f = 0 THEN "ok" ELSE "throw",
                IF f # 0 /\ xk = "std" THEN "delete_inside_block" ELSE "none", i)

\* the new block of RelocatedEmplace once both runs are relocated around slot i
RelocatedAround(old, n, i, val, temp) ==
    UninitCopyN(old, i, n - i,
                UninitCopyN(old, 0, i, [temp EXCEPT ![i + 1] = val], 0), i + 1)

\* the new block of RelocatedEmplace when the k-th relocation threw: the run that
\* threw has destroyed its own elements, an earlier run keeps them
RelocationLeft(old, i, val, temp, k) ==
    IF k <= i THEN [temp EXCEPT ![i + 1] = val]
    ELSE UninitCopyN(old, 0, i, [temp EXCEPT ![i + 1] = val], 0)

\* RelocatedEmplace; f as for RelocatedEmplaceBack
RelocatedEmplace(h, d, n, i, x, ref, f, xk) ==
    IF i = n THEN
        LET r == RelocatedEmplaceBack(h, d, n, x, ref, f, xk)
        IN Outcome(r.h, r.d, r.n, r.out, r.ub, n)
    ELSE
        LET temp == NewMemory(h, GrownCapacity(n))
            h1 == Allocated(h, GrownCapacity(n))
            old == Mem(h, d)
            val == ArgValue(old, x, ref)
        IN  IF f = 1 THEN Outcome(h, d, n, "throw", "none", 0)
            ELSE IF f = 2
            THEN Outcome(Deallocate(h1, temp.buffer_), d, n, "throw", "none", 0)
            ELSE IF f > 2 THEN
                LET left == RelocationLeft(old, i, val, h1[temp.buffer_], f - 2)
                    bad == xk = "std" /\ DestroysRaw(left, 0, n + 1)
                IN  Outcome(Deallocate(RelocationThrew(h1, d, f - 2), temp.buffer_),
                            d, n, "throw", IF bad THEN "destroy_raw" ELSE "none", 0)
            ELSE
                Outcome(Deallocate([h1 EXCEPT ![temp.buffer_] =
                                       RelocatedAround(old, n, i, val, h1[temp.buffer_])],
                                   d.buffer_),
                        temp, n + 1, "ok", "none", i)

\* the steps of Emplace at i that can throw for this T and this vector
EmplaceFaults(v, i) ==
    IF size_[v] = Capacity(v) \/ i = size_[v] THEN EmplaceBackFaults(v)
    ELSE 0..(IF MoveCanThrow THEN 3 + (size_[v] - 1 - i) ELSE 1)

\* the kinds of exception step f of Emplace at i can throw
EmplaceKinds(v, i, f) ==
    IF size_[v] = Capacity(v) THEN Kinds(f)
    ELSE IF i = size_[v] \/ f = 0 THEN {"std"}
    ELSE {"std", "other"}

\* the body of Vector::Emplace at position i on the vector with block d and size n
EmplaceInto(h, d, n, i, x, ref, f, xk) ==
    IF n = d.capacity_
    THEN RelocatedEmplace(h, d, n, i, x, ref, f, xk)
    ELSE UnusedEmplace(h, d, n, i, x, ref, f, xk)

\* Vector::Emplace, and Insert through it
Emplace(v, i, x, ref, f, xk) ==
    /\ ub = "none" /\ Usable(v)
    /\ LET val == ArgValue(Mem(heap, data_[v]), x, ref)
           r == EmplaceInto(heap, data_[v], size_[v], i, x, ref, f, xk)
       IN /\ size_[v] = Capacity(v) => CanAllocate(heap, GrownCapacity(size_[v]))
          /\ Finish(v, r, Called("Emplace", v, v, i, val, ref, r.out, r.ret))

\* ------------------------------------------------------------------ removal
\* Vector::PopBack
PoppedBack(h, d, n) ==
    Outcome([h EXCEPT ![d.buffer_] = DestroyN(h[d.buffer_], n - 1, 1)],
            d, n - 1, "ok", "none", 0)

PopBack(v) ==
    /\ ub = "none" /\ Usable(v) /\ size_[v] > 0
    /\ Finish(v, PoppedBack(heap, data_[v], size_[v]),
              Called("PopBack", v, v, 0, 0, 0, "ok", 0))

\* Vector::Erase at position i; f = k: the k-th move assignment of the shift throws
Erased(h, d, n, i, f) ==
    IF i = n THEN
        LET r == PoppedBack(h, d, n)
        IN Outcome(r.h, r.d, r.n, "ok", "none", r.n - 1)
    ELSE IF f # 0 THEN
        Outcome([h EXCEPT ![d.buffer_] = MoveForward(h[d.buffer_], i + 2, i + 1, f - 1)],
                d, n, "throw", "none", 0)
    ELSE
        LET r == PoppedBack([h EXCEPT ![d.buffer_] =
                                MoveForward(h[d.buffer_], i + 2, i + 1, n - 1 - i)], d, n)
        IN Outcome(r.h, r.d, r.n, "ok", "none", i)

EraseFaults(v, i) ==
    IF MoveCanThrow /\ i < size_[v] THEN 0..(size_[v] - 1 - i) ELSE {0}

Erase(v, i, f) ==
    /\ ub = "none" /\ Usable(v) /\ size_[v] > 0
    /\ LET r == Erased(heap, data_[v], size_[v], i, f)
       IN Finish(v, r, Called("Erase", v, v, i, 0, 0, r.out, r.ret))

\* ----------------------------------------------------------------- capacity
\* a Reserve whose guard never lets it allocate
ReservedNever(h, d, n, new_capacity, f) ==
    Outcome(h, d, n, IF new_capacity <= d.capacity_ \/ f = 0 THEN "ok" ELSE "throw",
            "none", 0)

\* a Reserve that swaps the new block in and never lets go of the old one
ReservedKeepsOld(h, d, n, new_capacity, f) ==
    LET new_data == NewMemory(h, new_capacity)
        h1 == Allocated(h, new_capacity)
    IN  IF new_capacity <= d.capacity_ THEN Outcome(h, d, n, "ok", "none", 0)
        ELSE IF f # 0 THEN Outcome(h, d, n, "throw", "none", 0)
        ELSE Outcome([h1 EXCEPT ![new_data.buffer_] =
                         UninitCopyN(Mem(h, d), 0, n, h1[new_data.buffer_], 0)],
                     new_data, n, "ok", "none", 0)

\* Vector::Reserve; f = 1: operator new throws, f = 1 + k: relocating the k-th
\* element throws
Reserved(h, d, n, new_capacity, f) ==
    LET new_data == NewMemory(h, new_capacity)
        h1 == Allocated(h, new_capacity)
    IN  IF new_capacity <= d.capacity_ THEN Outcome(h, d, n, "ok", "none", 0)
        ELSE IF f = 1 THEN Outcome(h, d, n, "throw", "none", 0)
        ELSE IF f > 1 THEN Outcome(RelocationThrew(h, d, f - 1), d, n, "throw", "none", 0)
        ELSE Outcome(Deallocate([h1 EXCEPT ![new_data.buffer_] =
                                    UninitCopyN(Mem(h, d), 0, n, h1[new_data.buffer_], 0)],
                                d.buffer_),
                     new_data, n, "ok", "none", 0)

ReserveFaults(v, c) ==
    IF c <= Capacity(v) THEN {0}
    ELSE 0..(IF MoveCanThrow THEN 1 + size_[v] ELSE 1)

Reserve(v, c, f) ==
    /\ ub = "none" /\ Usable(v)
    /\ c > Capacity(v) => CanAllocate(heap, c)
    /\ LET r == Reserved(heap, data_[v], size_[v], c, f)
       IN Finish(v, r, Called("Reserve", v, v, c, 0, 0, r.out, 0))

\* Vector::Resize; f counts the steps of Reserve (when it is called), then
\* f = ReserveSteps + k: the k-th T() throws
Resized(h, d, n, new_size, f, reserve_steps) ==
    IF new_size < n
    THEN Outcome([h EXCEPT ![d.buffer_] = DestroyN(h[d.buffer_], new_size, n - new_size)],
                 d, new_size, "ok", "none", 0)
    ELSE
        LET r == IF new_size > d.capacity_
                 THEN Reserved(h, d, n, new_size, IF f <= reserve_steps THEN f ELSE 0)
                 ELSE Outcome(h, d, n, "ok", "none", 0)
        IN  IF r.out = "throw" \/ new_size = n THEN r
            ELSE IF f # 0 THEN Outcome(r.h, r.d, n, "throw", "none", 0)
            ELSE Outcome([r.h EXCEPT ![r.d.buffer_] =
                             ValueConstructN(r.h[r.d.buffer_], n, new_size - n)],
                         r.d, new_size, "ok", "none", 0)

\* the steps of Reserve inside Resize(m) that can throw
ReserveSteps(v, m) ==
    IF m <= Capacity(v) THEN 0 ELSE IF MoveCanThrow THEN 1 + size_[v] ELSE 1

ResizeFaults(v, m) ==
    IF m <= size_[v] THEN {0} ELSE 0..(ReserveSteps(v, m) + (m - size_[v]))

Resize(v, m, f) ==
    /\ ub = "none" /\ Usable(v)
    /\ m > Capacity(v) => CanAllocate(heap, m)
    /\ LET r == Resized(heap, data_[v], size_[v], m, f, ReserveSteps(v, m))
       IN Finish(v, r, Called("Resize", v, v, m, 0, 0, r.out, 0))

\* v[i] = x through Vector::operator[]
Write(v, i, x) ==
    /\ ub = "none" /\ Usable(v) /\ i < size_[v]
    /\ Finish(v, Outcome([heap EXCEPT ![data_[v].buffer_][i + 1] = x],
                         data_[v], size_[v], "ok", "none", 0),
              Called("[]=", v, v, i, x, 0, "ok", 0))

\* ------------------------------------------------------------ the program
Constructing ==
    \E v \in Vecs :
        \/ DefaultConstruct(v)
        \/ \E n \in 0..MaxHeap : \E f \in 0..(1 + n) : SizedConstruct(v, n, f)
        \/ \E w \in Vecs : \E f \in 0..(1 + size_[w]) : CopyConstruct(v, w, f)
        \/ \E w \in Vecs : MoveConstruct(v, w)

Assigning ==
    \E v \in Vecs, w \in Vecs :
        \/ \E f \in CopyAssignFaults(v, w) : CopyAssign(v, w, f)
        \/ MoveAssign(v, w)
        \/ v # w /\ Swap(v, w)

Appending ==
    \E v \in Vecs : \E f \in EmplaceBackFaults(v) : \E a \in Args(v, f) :
        \E xk \in (IF size_[v] = Capacity(v) THEN Kinds(f) ELSE {"std"}) :
            EmplaceBack(v, a[1], a[2], f, xk)

Inserting ==
    \E v \in Vecs : \E i \in 0..size_[v] : \E f \in EmplaceFaults(v, i) :
        \E a \in Args(v, f) : \E xk \in EmplaceKinds(v, i, f) :
            Emplace(v, i, a[1], a[2], f, xk)

Removing ==
    \E v \in Vecs :
        \/ PopBack(v)
        \/ \E i \in 0..size_[v] : \E f \in EraseFaults(v, i) : Erase(v, i, f)

Sizing ==
    \E v \in Vecs : \E m \in 0..MaxHeap :
        \/ \E f \in ReserveFaults(v, m) : Reserve(v, m, f)
        \/ \E f \in ResizeFaults(v, m) : Resize(v, m, f)

Accessing ==
    \E v \in Vecs : \E i \in 0..(size_[v] - 1) : \E x \in Values : Write(v, i, x)

Next ==
    \/ Constructing
    \/ \E v \in Vecs : Destroy(v)
    \/ Assigning
    \/ Appending
    \/ Inserting
    \/ Removing
    \/ Sizing
    \/ Accessing

Spec == Init /\ [][Next]_vars

\* the runs in which the observers follow one kind of call
SpecMove == Start({"move="}) /\ [][Next]_vars
SpecMoveCtor == Start({"Vector(move)"}) /\ [][Next]_vars
SpecAssign == Start({"copy="}) /\ [][Next]_vars
SpecReserveCall == Start({"Reserve", "args"}) /\ [][Next]_vars
SpecAppend == Start({"EmplaceBack"}) /\ [][Next]_vars
SpecGrow == Start({"EmplaceBack", "Emplace"}) /\ [][Next]_vars
SpecInsert == Start({"Emplace", "args"}) /\ [][Next]_vars
SpecErase == Start({"Erase", "args"}) /\ [][Next]_vars
SpecResize == Start({"Resize", "args"}) /\ [][Next]_vars
SpecLog == Start({"log"}) /\ [][Next]_vars
SpecReserve == Start({"reserve"}) /\ [][Next]_vars
SpecCopy == Start({"copy"}) /\ [][Next]_vars

\* ------------------------------------------------------------------ claims
\* the slots of the block of v that hold a constructed T
Live(v) == {j \in 1..Len(Mem(heap, data_[v])) : Mem(heap, data_[v])[j] # Raw}

\* C1: after any sequence of operations every vector has 0 <= Size() <= Capacity()
\* and the constructed slots of its block are exactly the indices [0, Size()).
C1_LivePrefix ==
    ub = "none" =>
        \A v \in Vecs :
            alive[v] =>
                /\ 0 <= Size(v) /\ Size(v) <= Capacity(v)
                /\ Live(v) = 1..Size(v)

\* C2: a = std::move(b) between distinct vectors leaves a with b's prior size and
\* elements and b empty with Size() = 0; self-move-assignment changes nothing.
C2_MoveAssignTransfers ==
    [][last'.op = "move=" =>
        IF last'.v # last'.w
        THEN /\ size_'[last'.v] = size_[last'.w]
             /\ Elements(heap', data_'[last'.v], size_'[last'.v])
                    = Elements(heap, data_[last'.w], size_[last'.w])
             /\ size_'[last'.w] = 0
             /\ size_'[last'.w] <= data_'[last'.w].capacity_
        ELSE /\ data_' = data_ /\ size_' = size_ /\ heap' = heap]_vars

\* element j (0-based) of vector v before and after the step
Before(v, j) == Mem(heap, data_[v])[j + 1]
After(v, j) == Mem(heap', data_'[v])[j + 1]

\* C3: whenever EmplaceBack throws, in either branch, its behaviour is defined and
\* the vector has the same Size(), Capacity(), block and element values as before
\* the call.
C3_AppendStrong ==
    [][(last'.op = "EmplaceBack" /\ last'.out = "throw") =>
        /\ ub' = "none"
        /\ size_'[last'.v] = size_[last'.v]
        /\ data_'[last'.v] = data_[last'.v]
        /\ Mem(heap', data_'[last'.v]) = Mem(heap, data_[last'.v])]_vars

\* C4: after N successful EmplaceBack calls on an empty vector, Size() = N and
\* element i is the value passed at the i-th call.
C4_AppendedInOrder ==
    \A v \in Vecs :
        log[v].on =>
            /\ alive[v]
            /\ Size(v) = Len(log[v].vals)
            /\ \A j \in 1..Len(log[v].vals) :
                  j <= Capacity(v) /\ Mem(heap, data_[v])[j] = log[v].vals[j]

\* three values were appended through the reallocations 0 -> 1 -> 2 -> 4
C4_Witness ==
    \E v \in Vecs : log[v].on /\ log[v].vals = <<1, 0, 1>> /\ Capacity(v) = 4

\* C5: a successful single-element insertion at Size() = Capacity() leaves
\* Capacity() = max(1, 2 * size before); otherwise capacity and block are
\* unchanged; either way Capacity() >= Size() afterwards.
C5_Growth ==
    [][(last'.op \in {"EmplaceBack", "Emplace"} /\ last'.out = "ok") =>
        LET v == last'.v
            n == size_[v]
        IN /\ n = data_[v].capacity_ =>
                data_'[v].capacity_ = (IF 2 * n > 1 THEN 2 * n ELSE 1)
           /\ n # data_[v].capacity_ => data_'[v] = data_[v]
           /\ data_'[v].capacity_ >= size_'[v]]_vars

\* an Emplace grew a full vector of two to capacity four
C5_Witness ==
    /\ last.op = "Emplace" /\ last.out = "ok"
    /\ Size(last.v) = 3 /\ Capacity(last.v) = 4

\* C6: once c is a copy of o, mutating c leaves o's size and elements as they
\* were, and the two never share a block.
C6_CopyIndependent ==
    orig.on =>
        /\ Size(orig.o) = Len(orig.snap)
        /\ Elements(heap, data_[orig.o], size_[orig.o]) = orig.snap
        /\ data_[orig.o].buffer_ # Null =>
               data_[orig.o].buffer_ # data_[orig.c].buffer_

\* the copy has been changed and differs from its original
C6_Witness ==
    /\ orig.on /\ ub = "none" /\ Len(orig.snap) = 1
    /\ Size(orig.c) = 2
    /\ Mem(heap, data_[orig.c])[1] # orig.snap[1]

\* C7 as claimed: after Reserve(k) on any vector, the block is the same after
\* each of the next k EmplaceBack calls.
C7_ReserveThenAppend ==
    rsv.on => data_[rsv.v] = rsv.mem

\* C7 amended: the same, for a vector that is empty when Reserve(k) is called.
C7_ReserveEmptyThenAppend ==
    (rsv.on /\ rsv.empty) => data_[rsv.v] = rsv.mem

\* Reserve(3) on an empty vector was followed by three successful appends
C7_Witness ==
    /\ rsv.on /\ rsv.empty /\ rsv.left = 0
    /\ Size(rsv.v) = 3 /\ Capacity(rsv.v) = 3

\* C8: Erase at a valid index i of n elements leaves n - 1 elements in the same
\* block capacity, those before i unchanged, those after i one index lower, and
\* returns index i.
C8_EraseShifts ==
    [][(last'.op = "Erase" /\ last'.out = "ok" /\ last'.i < size_[last'.v]) =>
        LET v == last'.v
            i == last'.i
            n == size_[v]
        IN /\ size_'[v] = n - 1
           /\ data_'[v].capacity_ = data_[v].capacity_
           /\ \A j \in 0..(i - 1) : After(v, j) = Before(v, j)
           /\ \A j \in (i + 1)..(n - 1) : After(v, j - 1) = Before(v, j)
           /\ last'.ret = i]_vars

\* the first of three elements was erased and two were shifted
C8_Witness ==
    /\ last.op = "Erase" /\ last.out = "ok" /\ last.i = 0 /\ last.ret = 0
    /\ Size(last.v) = 2 /\ Mem(heap, data_[last.v])[1] # Mem(heap, data_[last.v])[2]

\* C9: Resize(m) of n elements: shrinking destroys exactly [m, n) and keeps the
\* block; growing keeps [0, n), value-initializes exactly [n, m) and changes the
\* block only when m > Capacity(); then Size() = m. When it throws, Size() is
\* still n and no slot from n on holds an element.
C9_Resize ==
    [][last'.op = "Resize" =>
        LET v == last'.v
            m == last'.i
            n == size_[v]
            after == Mem(heap', data_'[v])
        IN IF last'.out = "ok"
           THEN /\ size_'[v] = m
                /\ \A j \in 1..Len(after) : (after[j] # Raw) <=> (j <= m)
                /\ \A j \in 0..((IF m < n THEN m ELSE n) - 1) :
                      After(v, j) = Before(v, j)
                /\ \A j \in n..(m - 1) : After(v, j) = DefaultValue
                /\ m <= data_[v].capacity_ => data_'[v] = data_[v]
           ELSE /\ size_'[v] = n
                /\ \A j \in 1..Len(after) : j > n => after[j] = Raw]_vars

\* a vector holding one element was resized to three in a block of three
C9_Witness ==
    /\ last.op = "Resize" /\ last.out = "ok" /\ last.i = 3
    /\ Capacity(last.v) = 3
    /\ Mem(heap, data_[last.v]) = <<1, DefaultValue, DefaultValue>>

\* C10: Emplace at index i < n of n elements leaves n + 1 elements: those before
\* i unchanged, at i the value the argument had before the call (also when it
\* refers to an element of the vector), the former i..n-1 at i+1..n; it returns i.
C10_InsertAt ==
    [][(last'.op = "Emplace" /\ last'.out = "ok" /\ last'.i < size_[last'.v]) =>
        LET v == last'.v
            i == last'.i
            n == size_[v]
            arg == IF last'.ref > 0 THEN Before(v, last'.ref - 1) ELSE last'.x
        IN /\ size_'[v] = n + 1
           /\ \A j \in 0..(i - 1) : After(v, j) = Before(v, j)
           /\ After(v, i) = arg
           /\ \A j \in i..(n - 1) : After(v, j + 1) = Before(v, j)
           /\ last'.ret = i]_vars

\* an element of the vector was inserted before itself without reallocation
C10_Witness ==
    /\ last.op = "Emplace" /\ last.out = "ok"
    /\ last.ref > last.i /\ last.x = 1 /\ last.ret = last.i
    /\ Size(last.v) = 3 /\ Capacity(last.v) = 3
    /\ Mem(heap, data_[last.v])[last.ref] # 1

\* C11: in every state, for every argument and every step that can throw,
\* Insert(end(), x) leaves the same heap, block, size and elements and fails the
\* same way as PushBack(x), and when it returns its position is the new last
\* element.
C11_InsertAtEndIsPushBack ==
    \A v \in Vecs :
        (ub = "none" /\ Usable(v)) =>
            /\ EmplaceFaults(v, size_[v]) = EmplaceBackFaults(v)
            /\ \A f \in EmplaceBackFaults(v) : \A a \in Args(v, f) :
                  \A xk \in EmplaceKinds(v, size_[v], f) :
                    LET e == EmplaceInto(heap, data_[v], size_[v], size_[v],
                                         a[1], a[2], f, xk)
                        b == EmplaceBackInto(heap, data_[v], size_[v],
                                             a[1], a[2], f, xk)
                    IN /\ e.h = b.h /\ e.d = b.d /\ e.n = b.n
                       /\ e.out = b.out /\ e.ub = b.ub
                       /\ e.out = "ok" => e.ret = e.n - 1

\* an Insert at end() has appended a third element to a block with room for it
C11_Witness ==
    /\ last.op = "Emplace" /\ last.out = "ok"
    /\ last.i = 2 /\ last.ret = 2 /\ last.x = 1
    /\ Size(last.v) = 3 /\ Capacity(last.v) = 3
    /\ Mem(heap, data_[last.v])[3] = 1

\* C12: Vector b(std::move(a)) gives b the size, capacity, block and element
\* values a had, touches no element of the heap, and leaves a with Size() = 0 and
\* Capacity() = 0.
C12_MoveConstructTransfers ==
    [][last'.op = "Vector(move)" =>
        LET b == last'.v
            a == last'.w
        IN /\ alive'[b]
           /\ size_'[b] = size_[a]
           /\ data_'[b] = data_[a]
           /\ heap' = heap
           /\ Elements(heap', data_'[b], size_'[b]) = Elements(heap, data_[a], size_[a])
           /\ size_'[a] = 0
           /\ data_'[a].capacity_ = 0 /\ data_'[a].buffer_ = Null]_vars

\* a vector was move-constructed from one holding two elements in a block of three
C12_Witness ==
    /\ last.op = "Vector(move)"
    /\ Size(last.v) = 2 /\ Capacity(last.v) = 3
    /\ Mem(heap, data_[last.v]) = <<1, 0, Raw>>
    /\ Size(last.w) = 0 /\ Capacity(last.w) = 0

\* C13: when a = b with b.Size() > a.Capacity() throws (the allocation or an
\* element copy fails), a has the Size(), Capacity(), block and elements it had,
\* and b is unchanged.
C13_CopyAssignStrong ==
    [][(/\ last'.op = "copy=" /\ last'.out = "throw"
        /\ size_[last'.w] > data_[last'.v].capacity_) =>
        /\ ub' = "none"
        /\ size_' = size_
        /\ data_' = data_
        /\ heap' = heap]_vars

\* copying two elements into a vector holding one in a block of one has thrown
C13_Witness ==
    /\ last.op = "copy=" /\ last.out = "throw"
    /\ Size(last.w) = 2 /\ Size(last.v) = 1 /\ Capacity(last.v) = 1
    /\ Mem(heap, data_[last.v]) = <<1>>

\* C14: a successful a = b leaves a with the size and elements of b and b
\* unchanged; when b.Size() <= a.Capacity() the block of a is the same and holds
\* no element beyond b.Size(); self-assignment changes nothing.
C14_CopyAssign ==
    [][(last'.op = "copy=" /\ last'.out = "ok") =>
        LET a == last'.v
            b == last'.w
        IN IF a = b
           THEN size_' = size_ /\ data_' = data_ /\ heap' = heap
           ELSE /\ size_'[a] = size_[b]
                /\ Elements(heap', data_'[a], size_'[a])
                       = Elements(heap, data_[b], size_[b])
                /\ size_'[b] = size_[b] /\ data_'[b] = data_[b]
                /\ Mem(heap', data_'[b]) = Mem(heap, data_[b])
                /\ size_[b] <= data_[a].capacity_ =>
                       /\ data_'[a] = data_[a]
                       /\ \A j \in 1..data_[a].capacity_ :
                              j > size_[b] => Mem(heap', data_'[a])[j] = Raw]_vars

\* a vector with a block of two now holds the one element of the vector it was
\* assigned from
C14_Witness ==
    /\ last.op = "copy=" /\ last.out = "ok" /\ last.v # last.w
    /\ Size(last.w) = 1 /\ Capacity(last.w) = 1
    /\ Size(last.v) = 1 /\ Capacity(last.v) = 2
    /\ Mem(heap, data_[last.v]) = <<1, Raw>>
    /\ Mem(heap, data_[last.w]) = <<1>>

\* C15: Reserve(c) with c <= Capacity() changes nothing; otherwise Capacity()
\* becomes c, Size() and the elements are kept in order, and the old block is
\* released. When it throws while the elements are relocated by copy, the block,
\* Capacity(), Size() and elements are as before the call.
C15_Reserve ==
    [][last'.op = "Reserve" =>
        LET v == last'.v
            c == last'.i
            old == data_[v].buffer_
        IN IF last'.out = "ok"
           THEN IF c <= data_[v].capacity_
                THEN size_' = size_ /\ data_' = data_ /\ heap' = heap
                ELSE /\ data_'[v].capacity_ = c
                     /\ Len(Mem(heap', data_'[v])) = c
                     /\ size_'[v] = size_[v]
                     /\ Elements(heap', data_'[v], size_'[v])
                            = Elements(heap, data_[v], size_[v])
                     /\ data_'[v].buffer_ # old
                     /\ old # Null => heap'[old] = <<>>
           ELSE ~UseMove =>
                    /\ ub' = "none"
                    /\ size_' = size_ /\ data_' = data_ /\ heap' = heap]_vars

\* Reserve(3) has moved two elements out of a block of two
C15_Witness ==
    /\ last.op = "Reserve" /\ last.out = "ok" /\ last.i = 3
    /\ Size(last.v) = 2 /\ Capacity(last.v) = 3
    /\ Mem(heap, data_[last.v]) = <<0, 1, Raw>>
    /\ Cardinality({r \in Regions : heap[r] # <<>>}) = 1

\* C16: for any two vectors, operator!= is true exactly when their sizes differ
\* and their (address, capacity) pairs differ, and operator== is true exactly
\* when their sizes and their (address, capacity) pairs are the same.
C16_Comparisons ==
    \A v \in Vecs, w \in Vecs :
        (ub = "none" /\ Usable(v) /\ Usable(w)) =>
            /\ VectorNotEqual(v, w) <=>
                  (/\ size_[v] # size_[w]
                   /\ <<data_[v].buffer_, data_[v].capacity_>>
                         # <<data_[w].buffer_, data_[w].capacity_>>)
            /\ VectorEqual(v, w) <=>
                  (/\ size_[v] = size_[w]
                   /\ <<data_[v].buffer_, data_[v].capacity_>>
                         = <<data_[w].buffer_, data_[w].capacity_>>)

\* C17: when EmplaceBack or Emplace throws in the relocation branch (Size() =
\* Capacity()), no destructor has run on a slot holding no element, the new block
\* is released, and the vector has the block and size it had.
C17_RelocationFailureCleansUp ==
    [][(/\ last'.op \in {"EmplaceBack", "Emplace"} /\ last'.out = "throw"
        /\ size_[last'.v] = data_[last'.v].capacity_) =>
        /\ ub' = "none"
        /\ ~Leaked(heap', data_')
        /\ data_' = data_
        /\ size_' = size_]_vars

\* C18: when an Emplace that does not relocate (Size() < Capacity()) throws,
\* Size() is unchanged, the slot at index Size() holds no element, and the vector
\* still owns its whole block with the same Capacity().
C18_InPlaceInsertFailure ==
    [][(/\ last'.op = "Emplace" /\ last'.out = "throw"
        /\ size_[last'.v] < data_[last'.v].capacity_) =>
        LET v == last'.v
        IN /\ ub' = "none"
           /\ size_'[v] = size_[v]
           /\ data_'[v] = data_[v]
           /\ Len(Mem(heap', data_'[v])) = data_[v].capacity_
           /\ Mem(heap', data_'[v])[size_[v] + 1] = Raw]_vars

\* C19: moving the RawMemory of a distinct source (here by a = std::move(b))
\* gives the destination the region and capacity of the source and leaves the
\* source null with capacity 0, whatever the two capacities; a self-move changes
\* nothing; afterwards every allocated region is owned by exactly one block.
C19_RawMemoryMove ==
    [][last'.op = "move=" =>
        /\ IF last'.v # last'.w
           THEN /\ data_'[last'.v] = data_[last'.w]
                /\ data_'[last'.w] = NullMemory
           ELSE data_' = data_
        /\ \A r \in Regions :
              heap'[r] # <<>> =>
                  Cardinality({u \in Vecs : data_'[u].buffer_ = r}) = 1]_vars

\* C20: no operation loses the last reference to an allocated region or releases
\* an address inside a region, and every allocated region belongs to a vector
\* until it is released.
C20_RegionsReleasedOnce ==
    /\ ub \notin {"leak", "delete_inside_block"}
    /\ ~Leaked(heap, data_)
====
